---- MODULE Spec2Model ----
(***************************************************************************)
(* State-machine model of glayout/llm/train_and_run.py: the session        *)
(* handler GlayoutLLMSessionHandler (construction, clear_history,          *)
(* generate), checkpoint discovery, load_model_and_tokenizer and           *)
(* run_full_SFT_training with the two module-level family flags.           *)
(***************************************************************************)
EXTENDS Naturals, Sequences, FiniteSets, TLC

VARIABLES
    fs,               \* entries under base_path whose name matches *checkpoint-bestperf*, in glob order
    microsoft_model,  \* module-level flag (line 41)
    mistral_model,    \* module-level flag (line 42)
    status,           \* "none": no session object, "ready": a constructed session
    converse_mode,    \* self.converse_mode
    device,           \* self.device
    model,            \* self.model   (base model the served model was built from)
    tokenizer,        \* self.tokenizer (base model id the tokenizer was built from)
    chat_history,     \* self.chat_history
    pastfirst,        \* self.pastfirst
    RAGvecdb,         \* self.RAGvecdb (the knowledge root the retriever was opened on)
    runs,             \* the constructions running concurrently: each one's place and locals
    trained_once,     \* history: a construction took the training path and completed
    called,           \* history: generate was called since construction or the last clear_history
    fresh,            \* history: chat_history and pastfirst as the constructor left them
    last              \* history: the latest call, its inputs, its outcome and the state before it

vars == <<fs, microsoft_model, mistral_model, status, converse_mode, device,
          model, tokenizer, chat_history, pastfirst, RAGvecdb, runs, trained_once,
          called, fresh, last>>

-----------------------------------------------------------------------------
(* Bounds *)

\* generate is called only while chat_history holds fewer messages than this
MaxHistory == 5
\* the number of matching entries a file tree holds before the first construction
MaxEntries == 2

-----------------------------------------------------------------------------
(* Strings that the code inspects character by character are tuples of     *)
(* one-character strings.                                                  *)

Whitespace == {" ", "\t", "\n"}

\* str.lower() on one character (the letters that occur in the keys tried)
LowerChar(c) ==
    CASE c = "B" -> "b"
      [] c = "A" -> "a"
      [] OTHER -> c

\* str.lower()
Lower(s) == [i \in 1..Len(s) |-> LowerChar(s[i])]

RECURSIVE LStrip(_)
LStrip(s) == IF s # <<>> /\ Head(s) \in Whitespace THEN LStrip(Tail(s)) ELSE s

RECURSIVE RStrip(_)
RStrip(s) ==
    IF s # <<>> /\ s[Len(s)] \in Whitespace THEN RStrip(SubSeq(s, 1, Len(s) - 1)) ELSE s

\* str.strip()
Strip(s) == RStrip(LStrip(s))

\* model.strip().lower()  (lines 68 and 311)
\* a lookup that trims the key but keeps its case
NormalizeKeyKeepsCase(s) == Strip(s)

NormalizeKey(s) == Lower(Strip(s))

\* Python's  sub in s  on strings
IsSubstring(sub, s) ==
    \E i \in 0..(Len(s) - Len(sub)) : SubSeq(s, i + 1, i + Len(sub)) = sub

KEY_3B == <<"3", "b">>
KEY_7B == <<"7", "b">>
KEY_22B == <<"2", "2", "b">>

\* the model keys a caller passes
Keys == { KEY_3B, <<" ", "7", "B", "\n">>, KEY_22B, <<"1", "3", "b">> }

PHI3 == "microsoft/Phi-3-mini-128k-instruct"
MISTRAL7B == "mistralai/Mistral-7B-Instruct-v0.3"
CODESTRAL == "mistralai/Codestral-22B-v0.1"

ModelNames == {PHI3, MISTRAL7B, CODESTRAL}

\* the characters of a model name
Chars(name) ==
    CASE name = PHI3 ->
           <<"m","i","c","r","o","s","o","f","t","/","P","h","i","-","3","-","m","i","n","i",
             "-","1","2","8","k","-","i","n","s","t","r","u","c","t">>
      [] name = MISTRAL7B ->
           <<"m","i","s","t","r","a","l","a","i","/","M","i","s","t","r","a","l","-","7","B",
             "-","I","n","s","t","r","u","c","t","-","v","0",".","3">>
      [] name = CODESTRAL ->
           <<"m","i","s","t","r","a","l","a","i","/","C","o","d","e","s","t","r","a","l","-",
             "2","2","B","-","v","0",".","1">>

MICROSOFT == <<"m","i","c","r","o","s","o","f","t">>
MISTRAL == <<"m","i","s","t","r","a","l">>

-----------------------------------------------------------------------------
(* Conversation state: clear_history and generate                          *)

NoneValue == "None"

\* get_glayout_context(): the domain context text
GLAYOUT_CONTEXT == "<glayout context>"

RESPONSE == "Thank you for providing the detailed context on Glayout strict syntax. I now have a foundational understanding of the commands. You can prompt me with specific requests to create circuits, and I will be able to write the Glayout strict syntax commands for you."

Message(role, content) == [role |-> role, content |-> content]

\* what a caller passes as user_input
UserInputs == {"inverter", "nand gate"}

\* what the tokenizer decodes from the generated span
Responses == {"resp-1", "resp-2"}

\* RAGdb.query(user_input, k=1): up to k snippets; an entry may be None
RagResults == { <<>>, <<NoneValue>>, <<"ctx-A">> }

\* line 393 runs only inside  if not self.pastfirst : the results a call can see
QueryResults(pf) == IF ~pf THEN RagResults ELSE { <<>> }

\* the value of self.chat_history after clear_history (lines 344-348)
SeededHistoryBug(cm) == IF ~cm THEN << Message("user", GLAYOUT_CONTEXT) >> ELSE << >>
SeededHistory(cm) ==
    IF ~cm
    THEN << Message("user", GLAYOUT_CONTEXT), Message("assistant", RESPONSE) >>
    ELSE << >>

\* the value of self.pastfirst after clear_history (lines 346, 350)
ClearedPastfirstBug(cm) == FALSE
ClearedPastfirst(cm) == IF ~cm THEN FALSE ELSE TRUE

\* full_prompt as built on lines 388-398; rag is the query result, read only when ~pf
FullPrompt(pf, user_input, rag) ==
    IF ~pf
    THEN "Glayout strictsyntax is a electronic circuit layout command language.\n"
         \o (IF rag[1] # NoneValue
             THEN "The following is more specific context. This is only useful if it is related to the circuit the user is requesting below.\n"
                  \o rag[1] \o "\n"
             ELSE "")
         \o "Convert the following prompt to Glayout strictsyntax:\n" \o user_input
    ELSE user_input

\* chat_history once line 414 has run
HistoryAfterTurnBug(h, full_prompt, response) ==
    h \o << Message("assistant", response), Message("user", full_prompt) >>
HistoryAfterTurnRebuilt(h, full_prompt, response) ==
    << Message("user", full_prompt), Message("assistant", response) >>
HistoryAfterTurn(h, full_prompt, response) ==
    (h \o << Message("user", full_prompt) >>) \o << Message("assistant", response) >>

\* self.pastfirst once lines 389-399 have run (line 399 runs only when it was false)
PastfirstAfterPromptBug(pf) == ~pf
PastfirstAfterPrompt(pf) == IF ~pf THEN TRUE ELSE pf

NoLast ==
    [op |-> "init", err |-> "none", key |-> <<>>, user_input |-> "", queried |-> FALSE,
     rag |-> <<>>, ret |-> "", pre_history |-> <<>>, pre_pastfirst |-> FALSE,
     pre_called |-> FALSE, pre_fs |-> <<>>, found |-> 0, trained |-> FALSE, tok_arg |-> "notcalled",
     modelname |-> "None", target_modules |-> <<>>, loaded |-> FALSE,
     instruction |-> "None", response |-> "None", output |-> "None"]

NoFresh == [chat_history |-> << >>, pastfirst |-> FALSE]

\* a clear_history that also drops the retriever handle and the loaded model
ClearHistoryReloads ==
    /\ status = "ready"
    /\ chat_history' = SeededHistory(converse_mode)
    /\ pastfirst' = ClearedPastfirst(converse_mode)
    /\ RAGvecdb' = NoneValue
    /\ model' = NoneValue
    /\ called' = FALSE
    /\ last' = [NoLast EXCEPT !.op = "clear_history", !.pre_pastfirst = pastfirst,
                              !.pre_called = called]
    /\ UNCHANGED <<fs, microsoft_model, mistral_model, status, converse_mode, device,
                   tokenizer, runs, trained_once, fresh>>

\* clear_history (lines 336-350)
ClearHistory ==
    /\ status = "ready"
    /\ chat_history' = SeededHistory(converse_mode)
    /\ pastfirst' = ClearedPastfirst(converse_mode)
    /\ called' = FALSE
    /\ last' = [NoLast EXCEPT !.op = "clear_history", !.pre_pastfirst = pastfirst,
                              !.pre_called = called]
    /\ UNCHANGED <<fs, microsoft_model, mistral_model, status, converse_mode, device,
                   model, tokenizer, RAGvecdb, runs, trained_once, fresh>>

\* generate (lines 376-415) when RAGvecdb.query(...)[0] on line 393 raises IndexError
GenerateRagIndexError(user_input, rag) ==
    /\ ~pastfirst
    /\ Len(rag) = 0
    /\ last' = [NoLast EXCEPT !.op = "generate", !.err = "IndexError",
                              !.user_input = user_input, !.queried = TRUE, !.rag = rag,
                              !.pre_history = chat_history, !.pre_pastfirst = pastfirst,
                              !.pre_called = called]
    /\ UNCHANGED <<chat_history, pastfirst>>

\* generate when model.generate on line 410 raises: lines 389-401 have run
GenerateModelError(user_input, rag) ==
    /\ pastfirst \/ Len(rag) > 0
    /\ chat_history' = chat_history \o << Message("user", FullPrompt(pastfirst, user_input, rag)) >>
    /\ pastfirst' = PastfirstAfterPrompt(pastfirst)
    /\ last' = [NoLast EXCEPT !.op = "generate", !.err = "GenerationFailure",
                              !.user_input = user_input,
                              !.queried = ~pastfirst, !.rag = rag,
                              !.pre_history = chat_history, !.pre_pastfirst = pastfirst,
                              !.pre_called = called]

\* generate running to its return on line 415
GenerateReturn(user_input, rag, response) ==
    /\ pastfirst \/ Len(rag) > 0
    /\ chat_history' = HistoryAfterTurn(chat_history, FullPrompt(pastfirst, user_input, rag), response)
    /\ pastfirst' = PastfirstAfterPrompt(pastfirst)
    /\ last' = [NoLast EXCEPT !.op = "generate", !.err = "none",
                              !.user_input = user_input,
                              !.queried = ~pastfirst, !.rag = rag,
                              !.ret = response,
                              !.pre_history = chat_history, !.pre_pastfirst = pastfirst,
                              !.pre_called = called]

\* generate (lines 376-415); __call__ (line 420) is the same call
Generate ==
    /\ status = "ready"
    /\ Len(chat_history) < MaxHistory
    /\ \E user_input \in UserInputs, rag \in QueryResults(pastfirst) :
          \/ GenerateRagIndexError(user_input, rag)
          \/ GenerateModelError(user_input, rag)
          \/ \E response \in Responses : GenerateReturn(user_input, rag, response)
    /\ called' = TRUE
    /\ UNCHANGED <<fs, microsoft_model, mistral_model, status, converse_mode, device,
                   model, tokenizer, RAGvecdb, runs, trained_once, fresh>>

-----------------------------------------------------------------------------
(* The catalog, the training run and the checkpoint on disk                *)

PHI_CKPT == "glayout_llm_checkpointsphi/checkpoint-bestperf"
MSTRL_CKPT == "glayout_llm_checkpointsmstrl/checkpoint-bestperf"
STRAY_FILE == "checkpoint-bestperf.log"

\* what json.load of <dir>/adapter_config.json can give: no readable file, a record
\* without base_model_name_or_path, or a record that names a base model
Sidecars == {"unreadable", "nofield"} \cup ModelNames

Entry(path, isdir, sidecar) == [path |-> path, isdir |-> isdir, sidecar |-> sidecar]

\* the matching entries a file tree can hold before any training of this run
InitialEntries ==
    { Entry(p, TRUE, sc) : p \in {PHI_CKPT, MSTRL_CKPT}, sc \in {"unreadable", "nofield", PHI3, MISTRAL7B} }
    \cup { Entry(STRAY_FILE, FALSE, NoneValue) }

DistinctPaths(es) == \A i, j \in 1..Len(es) : i # j => es[i].path # es[j].path

InitialTrees ==
    { es \in UNION { [1..n -> InitialEntries] : n \in 0..MaxEntries } : DistinctPaths(es) }

\* the if/elif chain of lines 69-81 on the normalized key
Catalog(key) ==
    IF key = KEY_3B THEN [err |-> "none", modelname |-> PHI3, target_modules |-> <<"qkv_proj">>]
    ELSE IF key = KEY_7B
    THEN [err |-> "none", modelname |-> MISTRAL7B, target_modules |-> <<"q_proj", "k_proj", "v_proj">>]
    ELSE IF key = KEY_22B
    THEN [err |-> "none", modelname |-> CODESTRAL, target_modules |-> <<"q_proj", "k_proj", "v_proj">>]
    ELSE [err |-> "ValueError", modelname |-> NoneValue, target_modules |-> << >>]

\* one output directory for every family
OutputCheckpointShared(ms) == PHI_CKPT

\* a collator that gives every model the [INST] pair, and also a model of no family
CollatorAlwaysInst(ms, mi) ==
    [err |-> "none", instruction |-> "[INST]", response |-> "[/INST]"]

\* line 250: the output directory's checkpoint, from the module-level flag
OutputCheckpoint(ms) == IF ms THEN PHI_CKPT ELSE MSTRL_CKPT

\* lines 273-278: the collator's (instruction_template, response_template), or the error
Collator(ms, mi) ==
    IF ms THEN [err |-> "none", instruction |-> "<|user|>", response |-> "<|assistant|>"]
    ELSE IF mi THEN [err |-> "none", instruction |-> "[INST]", response |-> "[/INST]"]
    ELSE [err |-> "ValueError", instruction |-> NoneValue, response |-> NoneValue]

HasPath(es, p) == \E i \in 1..Len(es) : es[i].path = p

\* line 295: model.save_pretrained(output_dir / "checkpoint-bestperf") writes the adapter
\* and its adapter_config.json; a directory already there keeps its place, a new one
\* shows up at place pos + 1 of the traversal order
SavePretrained(es, p, modelname, pos) ==
    IF HasPath(es, p)
    THEN [i \in 1..Len(es) |-> IF es[i].path = p THEN Entry(p, TRUE, modelname) ELSE es[i]]
    ELSE SubSeq(es, 1, pos) \o << Entry(p, TRUE, modelname) >> \o SubSeq(es, pos + 1, Len(es))

\* load_model_and_tokenizer (lines 44-120): key as passed, ms/mi the flags before the
\* call, fail the step the environment makes fail ("input": the input() of line 79 on
\* a closed stdin, "load": a from_pretrained)
LoadModelAndTokenizer(key, ms, mi, fail) ==
    LET cat == Catalog(NormalizeKey(key))
        base == [err |-> cat.err, modelname |-> cat.modelname,
                 target_modules |-> cat.target_modules, ms |-> ms, mi |-> mi, loaded |-> FALSE]
    IN  IF cat.err # "none" THEN base
        ELSE IF fail = "input" /\ NormalizeKey(key) = KEY_22B THEN [base EXCEPT !.err = "EOFError"]
        ELSE LET flagged == [base EXCEPT !.ms = IsSubstring(MICROSOFT, Chars(cat.modelname)),
                                         !.mi = IsSubstring(MISTRAL, Chars(cat.modelname))]
             IN  IF fail = "load" THEN [flagged EXCEPT !.err = "LoadError"]
                 ELSE [flagged EXCEPT !.loaded = TRUE]

\* what a run that has not got anywhere reports
NoRun(es, ms, mi) ==
    [err |-> "none", model |-> NoneValue, tokenizer |-> NoneValue, ms |-> ms, mi |-> mi,
     fs |-> es, trained |-> FALSE, tok_arg |-> "notcalled", modelname |-> NoneValue,
     target_modules |-> << >>, loaded |-> FALSE, instruction |-> NoneValue,
     response |-> NoneValue, output |-> NoneValue]

\* run_full_SFT_training (lines 217-297) with load_model_and_tokenizer (lines 44-120):
\* key as passed, ms/mi the flags before the call, fail the step the environment makes
\* fail ("none", "input", "load": a from_pretrained, "train": trainer.train)
RunFullSFTTraining(key, es, ms, mi, fail, pos) ==
    LET ld == LoadModelAndTokenizer(key, ms, mi, fail)
        base == [NoRun(es, ld.ms, ld.mi) EXCEPT !.err = ld.err, !.modelname = ld.modelname,
                                               !.target_modules = ld.target_modules,
                                               !.loaded = ld.loaded]
    IN  IF ld.err # "none" THEN base
        ELSE LET col == Collator(ld.ms, ld.mi)
                 out == OutputCheckpoint(ld.ms)
                 set == [base EXCEPT !.tok_arg = ld.modelname, !.output = out,
                                     !.instruction = col.instruction, !.response = col.response]
             IN  IF col.err # "none" THEN [set EXCEPT !.err = "ValueError"]
                 ELSE IF fail = "train" THEN [set EXCEPT !.err = "TrainError"]
                 ELSE [set EXCEPT !.model = ld.modelname, !.tokenizer = ld.modelname,
                                  !.trained = TRUE,
                                  !.fs = SavePretrained(es, out, ld.modelname, pos)]

\* get_base_model_name_or_path (lines 354-358): data.get gives None for a missing field
GetBaseModelNameOrPath(sidecar) ==
    IF sidecar = "unreadable" THEN [err |-> "SidecarError", model_id |-> NoneValue]
    ELSE IF sidecar = "nofield" THEN [err |-> "none", model_id |-> NoneValue]
    ELSE [err |-> "none", model_id |-> sidecar]

\* load_model_from_checkpoint (lines 352-374): fail is the step the environment makes
\* fail ("none", "load": line 361, "tokenizer": line 372)
LoadModelFromCheckpoint(entry, fail) ==
    LET got == GetBaseModelNameOrPath(entry.sidecar)
        base == [err |-> "none", model |-> NoneValue, tokenizer |-> NoneValue, tok_arg |-> "notcalled"]
    IN  IF fail = "load" THEN [base EXCEPT !.err = "LoadError"]
        ELSE IF got.err # "none" THEN [base EXCEPT !.err = got.err]
        ELSE IF got.model_id = NoneValue
        THEN [base EXCEPT !.err = "TokenizerError", !.tok_arg = NoneValue]
        ELSE IF fail = "tokenizer" THEN [base EXCEPT !.err = "LoadError", !.tok_arg = got.model_id]
        ELSE [base EXCEPT !.model = entry.sidecar, !.tokenizer = got.model_id, !.tok_arg = got.model_id]

\* lines 315-318: the place in checkpoint_dirs of checkpoint_dir, 0 for None
SelectCheckpoint(checkpoint_dirs) ==
    IF Len(checkpoint_dirs) > 0 /\ checkpoint_dirs[Len(checkpoint_dirs)].isdir
    THEN Len(checkpoint_dirs)
    ELSE 0

\* the steps the environment can make fail on each path of the constructor
Failures(found) == IF found # 0 THEN {"none", "load", "tokenizer"} ELSE {"none", "input", "load", "train"}

\* the places where the trained checkpoint can show up in the traversal order
Positions(es, found) == IF found # 0 THEN {0} ELSE 0..Len(es)

\* line 329: the directory the retriever is opened on
RAG_DATA == "rag_data"

\* lines 311-327: what the constructor's load gives, on either path; the key is
\* normalized on line 311 and again on line 68
LoadOrTrain(key, es, ms, mi, fail, pos) ==
    LET found == SelectCheckpoint(es)
    IN  IF found # 0
        THEN LET c == LoadModelFromCheckpoint(es[found], fail)
             IN  [NoRun(es, ms, mi) EXCEPT !.err = c.err, !.model = c.model,
                                           !.tokenizer = c.tokenizer, !.tok_arg = c.tok_arg]
        ELSE RunFullSFTTraining(NormalizeKey(key), es, ms, mi, fail, pos)

\* GlayoutLLMSessionHandler.__init__ (lines 301-332)
Construct(key, cm, cuda, fail, pos) ==
    \E r \in { LoadOrTrain(key, fs, microsoft_model, mistral_model, fail, pos) } :
        LET ok == r.err = "none"
        IN  /\ status = "none"
            /\ fs' = r.fs
            /\ microsoft_model' = r.ms
            /\ mistral_model' = r.mi
            /\ status' = IF ok THEN "ready" ELSE "none"
            /\ converse_mode' = IF ok THEN cm ELSE FALSE
            /\ device' = IF ok THEN (IF cuda THEN "cuda" ELSE "cpu") ELSE NoneValue
            /\ model' = r.model
            /\ tokenizer' = r.tokenizer
            /\ chat_history' = IF ok THEN SeededHistory(cm) ELSE << >>
            /\ pastfirst' = IF ok THEN ClearedPastfirst(cm) ELSE FALSE
            /\ RAGvecdb' = IF ok THEN RAG_DATA ELSE NoneValue
            /\ trained_once' = (trained_once \/ (ok /\ r.trained))
            /\ UNCHANGED runs
            /\ called' = FALSE
            /\ fresh' = IF ok THEN [chat_history |-> SeededHistory(cm),
                                    pastfirst |-> ClearedPastfirst(cm)]
                              ELSE NoFresh
            /\ last' = [NoLast EXCEPT !.op = "construct", !.err = r.err, !.key = key,
                                      !.pre_fs = fs, !.found = SelectCheckpoint(fs),
                                      !.trained = r.trained, !.tok_arg = r.tok_arg,
                                      !.modelname = r.modelname,
                                      !.target_modules = r.target_modules,
                                      !.loaded = r.loaded, !.instruction = r.instruction,
                                      !.response = r.response, !.output = r.output]

NewSession ==
    \E key \in Keys, cm \in BOOLEAN, cuda \in BOOLEAN :
        \E fail \in Failures(SelectCheckpoint(fs)), pos \in Positions(fs, SelectCheckpoint(fs)) :
            Construct(key, cm, cuda, fail, pos)

\* the caller drops its session object; files and module-level flags stay
Release ==
    /\ status = "ready"
    /\ status' = "none"
    /\ converse_mode' = FALSE
    /\ device' = NoneValue
    /\ model' = NoneValue
    /\ tokenizer' = NoneValue
    /\ chat_history' = << >>
    /\ pastfirst' = FALSE
    /\ RAGvecdb' = NoneValue
    /\ called' = FALSE
    /\ fresh' = NoFresh
    /\ last' = [NoLast EXCEPT !.op = "release"]
    /\ UNCHANGED <<fs, microsoft_model, mistral_model, runs, trained_once>>


\* a caller's direct call of the module-level load_model_and_tokenizer (lines 44-120)
LoadCall(keys) ==
    \E key \in keys, fail \in {"none", "input", "load"} :
        \E r \in { LoadModelAndTokenizer(key, microsoft_model, mistral_model, fail) } :
            /\ microsoft_model' = r.ms
            /\ mistral_model' = r.mi
            /\ last' = [NoLast EXCEPT !.op = "load", !.err = r.err, !.key = key,
                                      !.modelname = r.modelname,
                                      !.target_modules = r.target_modules,
                                      !.loaded = r.loaded]
            /\ UNCHANGED <<fs, status, converse_mode, device, model, tokenizer, chat_history,
                           pastfirst, RAGvecdb, runs, trained_once, called, fresh>>

\* the case and whitespace variants of a key
UpperChar(c) == IF c = "b" THEN "B" ELSE c
CaseVariants(b) == { v \in [1..Len(b) -> {"2", "3", "7", "1", "b", "B", " "}] :
                        \A i \in 1..Len(b) : v[i] \in { b[i], UpperChar(b[i]) } }
Paddings == { << >>, <<" ">>, <<"\t">>, <<"\n", " ">> }
BaseKeys == { KEY_3B, KEY_7B, KEY_22B, <<"1", "3", "b">>, <<"3", " ", "b">>, << >> }
RawKeys == { pre \o v \o post : pre \in Paddings, post \in Paddings,
                                v \in UNION { CaseVariants(b) : b \in BaseKeys } }

LoadAnyKey == LoadCall(RawKeys)

\* a caller's direct call of the module-level run_full_SFT_training (lines 217-297)
TrainCall ==
    \E key \in Keys, fail \in {"none", "input", "load", "train"}, pos \in 0..Len(fs) :
        \E r \in { RunFullSFTTraining(key, fs, microsoft_model, mistral_model, fail, pos) } :
            /\ fs' = r.fs
            /\ microsoft_model' = r.ms
            /\ mistral_model' = r.mi
            /\ last' = [NoLast EXCEPT !.op = "train", !.err = r.err, !.key = key,
                                      !.pre_fs = fs, !.trained = r.trained,
                                      !.tok_arg = r.tok_arg, !.modelname = r.modelname,
                                      !.target_modules = r.target_modules,
                                      !.loaded = r.loaded, !.instruction = r.instruction,
                                      !.response = r.response, !.output = r.output]
            /\ UNCHANGED <<status, converse_mode, device, model, tokenizer, chat_history,
                           pastfirst, RAGvecdb, runs, trained_once, called, fresh>>

-----------------------------------------------------------------------------
(* Two constructions running at once, each on the training path: the steps  *)
(* of load_model_and_tokenizer and run_full_SFT_training that read or write *)
(* the module-level flags and the file tree, one statement at a time        *)

Threads == {1, 2}

NewRun(key) ==
    [key |-> key, pc |-> "l68", err |-> "none", modelname |-> NoneValue, output |-> NoneValue,
     instruction |-> NoneValue, response |-> NoneValue]

SessionIdle ==
    UNCHANGED <<status, converse_mode, device, model, tokenizer, chat_history, pastfirst,
                RAGvecdb, trained_once, called, fresh, last>>

\* lines 68-81: the catalog lookup
ResolveKey(t) ==
    /\ runs[t].pc = "l68"
    /\ LET cat == Catalog(NormalizeKey(runs[t].key))
       IN  runs' = [runs EXCEPT ![t].modelname = cat.modelname, ![t].err = cat.err,
                                ![t].pc = IF cat.err = "none" THEN "l84" ELSE "error"]
    /\ UNCHANGED <<fs, microsoft_model, mistral_model>>
    /\ SessionIdle

\* line 84: microsoft_model = "microsoft" in modelname
SetMicrosoftModel(t) ==
    /\ runs[t].pc = "l84"
    /\ microsoft_model' = IsSubstring(MICROSOFT, Chars(runs[t].modelname))
    /\ runs' = [runs EXCEPT ![t].pc = "l85"]
    /\ UNCHANGED <<fs, mistral_model>>
    /\ SessionIdle

\* line 85: mistral_model = "mistral" in modelname
SetMistralModel(t) ==
    /\ runs[t].pc = "l85"
    /\ mistral_model' = IsSubstring(MISTRAL, Chars(runs[t].modelname))
    /\ runs' = [runs EXCEPT ![t].pc = "l250"]
    /\ UNCHANGED <<fs, microsoft_model>>
    /\ SessionIdle

\* line 250: output_dir from the module-level flag
ReadOutputDir(t) ==
    /\ runs[t].pc = "l250"
    /\ runs' = [runs EXCEPT ![t].output = OutputCheckpoint(microsoft_model), ![t].pc = "l273"]
    /\ UNCHANGED <<fs, microsoft_model, mistral_model>>
    /\ SessionIdle

\* lines 273-274: if microsoft_model
CollatorIfMicrosoft(t) ==
    /\ runs[t].pc = "l273"
    /\ runs' = IF microsoft_model
               THEN [runs EXCEPT ![t].instruction = Collator(TRUE, mistral_model).instruction,
                                 ![t].response = Collator(TRUE, mistral_model).response,
                                 ![t].pc = "l294"]
               ELSE [runs EXCEPT ![t].pc = "l275"]
    /\ UNCHANGED <<fs, microsoft_model, mistral_model>>
    /\ SessionIdle

\* lines 275-278: elif mistral_model, else raise ValueError
CollatorElifMistral(t) ==
    /\ runs[t].pc = "l275"
    /\ LET col == Collator(FALSE, mistral_model)
       IN  runs' = [runs EXCEPT ![t].instruction = col.instruction,
                                ![t].response = col.response, ![t].err = col.err,
                                ![t].pc = IF col.err = "none" THEN "l294" ELSE "error"]
    /\ UNCHANGED <<fs, microsoft_model, mistral_model>>
    /\ SessionIdle

\* line 294: trainer.train()
TrainerTrain(t) ==
    /\ runs[t].pc = "l294"
    /\ runs' = [runs EXCEPT ![t].pc = "l295"]
    /\ UNCHANGED <<fs, microsoft_model, mistral_model>>
    /\ SessionIdle

\* line 295: model.save_pretrained(output_dir / "checkpoint-bestperf")
SaveCheckpoint(t) ==
    /\ runs[t].pc = "l295"
    /\ \E pos \in 0..Len(fs) :
          fs' = SavePretrained(fs, runs[t].output, runs[t].modelname, pos)
    /\ runs' = [runs EXCEPT ![t].pc = "done"]
    /\ UNCHANGED <<microsoft_model, mistral_model>>
    /\ SessionIdle

-----------------------------------------------------------------------------

NoSession ==
    /\ microsoft_model = FALSE
    /\ mistral_model = FALSE
    /\ status = "none"
    /\ converse_mode = FALSE
    /\ device = NoneValue
    /\ model = NoneValue
    /\ tokenizer = NoneValue
    /\ chat_history = << >>
    /\ pastfirst = FALSE
    /\ RAGvecdb = NoneValue
    /\ trained_once = FALSE
    /\ called = FALSE
    /\ fresh = NoFresh
    /\ last = NoLast

\* a fresh install: nothing was trained yet, no entry matches the marker
Init == fs = << >> /\ runs = << >> /\ NoSession

Next == NewSession \/ Release \/ ClearHistory \/ Generate

Spec == Init /\ [][Next]_vars

\* any file tree; the constructor's two paths without the conversation
InitDisk == fs \in InitialTrees /\ runs = << >> /\ NoSession

NextDisk == NewSession \/ Release

SpecDisk == InitDisk /\ [][NextDisk]_vars

\* the catalog lookup on its own, over keys in every case and padding
NextCatalog == LoadAnyKey

SpecCatalog == Init /\ [][NextCatalog]_vars

\* training runs called one after another over any file tree
NextTrain == TrainCall

SpecTrain == InitDisk /\ [][NextTrain]_vars

\* two constructions of different families at once, both past a checkpoint discovery
\* that found nothing
InitConc ==
    /\ fs = << >>
    /\ \E k \in {KEY_7B, KEY_22B} : runs = << NewRun(KEY_3B), NewRun(k) >>
    /\ NoSession

NextConc ==
    \E t \in Threads :
        \/ ResolveKey(t)
        \/ SetMicrosoftModel(t)
        \/ SetMistralModel(t)
        \/ ReadOutputDir(t)
        \/ CollatorIfMicrosoft(t)
        \/ CollatorElifMistral(t)
        \/ TrainerTrain(t)
        \/ SaveCheckpoint(t)

SpecConc == InitConc /\ [][NextConc]_vars

-----------------------------------------------------------------------------
(* Properties                                                              *)

GenerateCalled == status = "ready" /\ last.op = "generate"
GenerateReturned == GenerateCalled /\ last.err = "none"
Constructed == last.op = "construct"

PREAMBLE == "Glayout strictsyntax is a electronic circuit layout command language.\n"
CONTEXT_HEADER == "The following is more specific context. This is only useful if it is related to the circuit the user is requesting below.\n"
INSTRUCTION == "Convert the following prompt to Glayout strictsyntax:\n"

\* the entries of chat_history that the latest call added
Appended == SubSeq(chat_history, Len(last.pre_history) + 1, Len(chat_history))

KeepsPrefix ==
    /\ Len(chat_history) >= Len(last.pre_history)
    /\ SubSeq(chat_history, 1, Len(last.pre_history)) = last.pre_history

\* C1: when the model's generation step raises during generate, chat_history is
\* exactly what it was before the call (no user message of the failed turn remains).
C1_FailedTurnLeavesHistory ==
    (GenerateCalled /\ last.err = "GenerationFailure") => chat_history = last.pre_history

\* C2: a generate call that returns appends exactly two entries: a user message
\* holding the prompt, then an assistant message whose content is the returned string.
C2_ReturnAppendsUserThenAssistant ==
    GenerateReturned =>
        /\ KeepsPrefix
        /\ Len(Appended) = 2
        /\ Appended[1].role = "user"
        /\ Appended[1].content \in
               { last.user_input,
                 PREAMBLE \o INSTRUCTION \o last.user_input,
                 PREAMBLE \o CONTEXT_HEADER \o "ctx-A" \o "\n" \o INSTRUCTION \o last.user_input }
        /\ Appended[2] = Message("assistant", last.ret)

\* a second turn returned in a session without converse_mode whose first turn returned too
C2_Witness ==
    /\ GenerateReturned
    /\ ~converse_mode
    /\ last.pre_pastfirst
    /\ Len(chat_history) = 6
    /\ chat_history[4].role = "assistant"

\* C3: without converse_mode, the first generate call after construction or
\* clear_history appends a user message made of the preamble, the context block when
\* the top-1 result is non-null, and the instruction wrapping user_input; every later
\* call until the next clear_history appends user_input unchanged and does not query.
C3_FirstTurnAugmentedLaterTurnsPlain ==
    (GenerateCalled /\ ~converse_mode) =>
        /\ KeepsPrefix
        /\ Len(Appended) >= 1
        /\ Appended[1].role = "user"
        /\ IF ~last.pre_called
           THEN /\ last.queried
                /\ Len(last.rag) >= 1
                /\ Appended[1].content =
                      PREAMBLE
                      \o (IF last.rag[1] # NoneValue
                          THEN CONTEXT_HEADER \o last.rag[1] \o "\n"
                          ELSE "")
                      \o INSTRUCTION \o last.user_input
           ELSE /\ ~last.queried
                /\ Appended[1].content = last.user_input

\* C4: when the retriever has no result for the first-turn query (a null top-1 entry,
\* or fewer than one snippet), generate does not fail on it: the prompt has no context
\* block and the session is Continuing afterwards.
C4_NoRetrievalResultIsNotFatal ==
    (GenerateCalled /\ last.queried /\ (Len(last.rag) = 0 \/ last.rag[1] = NoneValue)) =>
        /\ last.err # "IndexError"
        /\ pastfirst
        /\ KeepsPrefix
        /\ Len(Appended) >= 1
        /\ Appended[1] = Message("user", PREAMBLE \o INSTRUCTION \o last.user_input)

\* C5: a construction whose key, trimmed and lower-cased, is not 3b, 7b or 22b fails
\* with the invalid-key error and yields no session, whatever the disk holds.
C5_InvalidKeyNeverConstructs ==
    (Constructed /\ NormalizeKey(last.key) \notin {KEY_3B, KEY_7B, KEY_22B}) =>
        /\ last.err = "ValueError"
        /\ status = "none"

DirectoriesOf(es) == { i \in 1..Len(es) : es[i].isdir }

LastOf(S) == CHOOSE i \in S : \A j \in S : j <= i

\* C6: the constructor takes the training path exactly when no matching directory
\* exists; when one or more exist, the last of them in traversal order is loaded and
\* training is not invoked, whatever non-directory entries match as well.
C6_TrainsOnlyWithoutCheckpointDirectory ==
    Constructed =>
        LET dirs == DirectoriesOf(last.pre_fs)
        IN  /\ (last.found = 0) <=> (dirs = {})
            /\ dirs # {} => (last.found = LastOf(dirs) /\ ~last.trained)

\* C7: a checkpoint directory whose adapter_config is unreadable or lacks
\* base_model_name_or_path makes the load fail: no default or empty id reaches the
\* tokenizer, the construction aborts, and training is not started instead.
C7_CorruptSidecarIsAnError ==
    (Constructed /\ last.found # 0
       /\ last.pre_fs[last.found].sidecar \in {"unreadable", "nofield"}) =>
        /\ last.err # "none"
        /\ status = "none"
        /\ last.tok_arg \notin {NoneValue, ""}
        /\ ~last.trained
        /\ fs = last.pre_fs

\* C8: on a session, pastfirst goes from true to false only in a clear_history step,
\* and only when converse_mode is false; no generate step, returned or failed, does it.
C8_PastfirstFallsOnlyInClearHistory ==
    [][ (status = "ready" /\ status' = "ready" /\ pastfirst /\ ~pastfirst')
            => (last'.op = "clear_history" /\ ~converse_mode) ]_vars

\* a failed generate call made in state Continuing of a session without converse_mode
C8_Witness ==
    /\ GenerateCalled
    /\ last.err = "GenerationFailure"
    /\ ~converse_mode
    /\ last.pre_pastfirst
    /\ pastfirst

\* C9: pastfirst is false exactly when converse_mode is false and generate was not
\* called since construction or the last clear_history; any generate call, failed
\* ones included, leaves pastfirst true.
C9_PastfirstFalseOnlyBeforeFirstCall ==
    status = "ready" => (~pastfirst <=> (~converse_mode /\ ~called))

\* C10: clear_history leaves chat_history and pastfirst equal to those of the freshly
\* constructed session (the seeded pair and false without converse_mode, empty and
\* true with it), and a second clear_history in a row changes nothing.
C10_ClearHistoryRestoresFreshState ==
    /\ [] ( (status = "ready" /\ last.op = "clear_history") =>
              /\ chat_history = fresh.chat_history
              /\ pastfirst = fresh.pastfirst
              /\ ~converse_mode =>
                    /\ chat_history = << Message("user", GLAYOUT_CONTEXT),
                                         Message("assistant", RESPONSE) >>
                    /\ ~pastfirst
              /\ converse_mode => (chat_history = << >> /\ pastfirst) )
    /\ [][ (last.op = "clear_history" /\ last'.op = "clear_history")
              => (chat_history' = chat_history /\ pastfirst' = pastfirst) ]_vars

\* clear_history called after generate calls in a session without converse_mode
C10_Witness ==
    /\ status = "ready"
    /\ last.op = "clear_history"
    /\ last.pre_called
    /\ last.pre_pastfirst
    /\ ~converse_mode

\* C11: with converse_mode the session is Continuing in every reachable state, right
\* after construction and after every clear_history too: no generate call queries the
\* retriever and the user message it appends is user_input unchanged.
C11_ConverseModeIsAlwaysContinuing ==
    (status = "ready" /\ converse_mode) =>
        /\ pastfirst
        /\ last.op = "generate" =>
              /\ ~last.queried
              /\ last.err # "IndexError"
              /\ Len(Appended) >= 1
              /\ Appended[1] = Message("user", last.user_input)

\* the first generate call after a clear_history in a session with converse_mode
C11_Witness ==
    /\ GenerateCalled
    /\ converse_mode
    /\ ~last.pre_called
    /\ last.pre_history = << >>
    /\ fresh.pastfirst

IsPrefix(a, b) == Len(a) <= Len(b) /\ SubSeq(b, 1, Len(a)) = a

\* C12: on a session every generate step, returned or failed, keeps all entries of
\* chat_history in place, with their role and content; only clear_history removes any.
C12_HistoryIsAppendOnly ==
    [][ (status = "ready" /\ status' = "ready") =>
            /\ last'.op = "generate" => IsPrefix(chat_history, chat_history')
            /\ ~IsPrefix(chat_history, chat_history') => last'.op = "clear_history" ]_vars

\* a returned turn on top of an earlier returned turn
C12_Witness ==
    /\ GenerateReturned
    /\ Len(last.pre_history) >= 4
    /\ Len(chat_history) = Len(last.pre_history) + 2

\* C18: whenever no call is in progress the roles in chat_history alternate user,
\* assistant, user, assistant, ... starting with user, and its length is even.
C18_RolesAlternate ==
    status = "ready" =>
        /\ Len(chat_history) % 2 = 0
        /\ \A i \in 1..Len(chat_history) :
              chat_history[i].role = (IF i % 2 = 1 THEN "user" ELSE "assistant")

RecognizedKeys == { KEY_3B, KEY_7B, KEY_22B }

\* C19: after a construction that succeeded with a recognized key, the session's model
\* and tokenizer are those of the base model the catalog maps that key to, whichever
\* checkpoints the file tree holds.
C19_ModelBelongsToRequestedKey ==
    (Constructed /\ last.err = "none" /\ NormalizeKey(last.key) \in RecognizedKeys) =>
        /\ model = Catalog(NormalizeKey(last.key)).modelname
        /\ tokenizer = Catalog(NormalizeKey(last.key)).modelname

\* C17: clear_history and generate change nothing of the session but chat_history and
\* pastfirst: the model, the tokenizer, the device, the retriever handle and
\* converse_mode stay as they are, and neither loads nor trains a model.
C17_ConversationTouchesOnlyHistory ==
    [][ last'.op \in { "generate", "clear_history" } =>
            /\ UNCHANGED <<model, tokenizer, device, RAGvecdb, converse_mode>>
            /\ UNCHANGED <<fs, microsoft_model, mistral_model, trained_once>>
            /\ ~last'.trained /\ ~last'.loaded ]_vars

C17_Witness ==
    /\ last.op = "clear_history"
    /\ last.pre_called
    /\ model # NoneValue
    /\ RAGvecdb = RAG_DATA

FamilyCheckpoint(k) == IF k = KEY_3B THEN PHI_CKPT ELSE MSTRL_CKPT
FamilyDelimiters(k) ==
    IF k = KEY_3B THEN << "<|user|>", "<|assistant|>" >> ELSE << "[INST]", "[/INST]" >>
TrainingCalled == last.op = "train"
ReachedCollator == TrainingCalled /\ last.err \in { "none", "TrainError" }
EntriesOf(es) == { es[i] : i \in 1..Len(es) }

\* C13: a training run for a recognized key uses the delimiter pair of the key's
\* family (3b: <|user|>, <|assistant|>; 7b and 22b: [INST], [/INST]); a model of
\* neither family is a ValueError, raised before trainer.train and before anything is
\* written.
C13_TrainingUsesFamilyDelimiters ==
    /\ Collator(FALSE, FALSE).err = "ValueError"
    /\ TrainingCalled =>
          /\ (ReachedCollator /\ NormalizeKey(last.key) \in RecognizedKeys) =>
                << last.instruction, last.response >> = FamilyDelimiters(NormalizeKey(last.key))
          /\ last.trained => ReachedCollator /\ last.instruction # NoneValue
          /\ last.err = "ValueError" => ~last.trained /\ fs = last.pre_fs

C13_Witness ==
    /\ TrainingCalled /\ last.trained
    /\ NormalizeKey(last.key) = KEY_22B
    /\ last.instruction = "[INST]"
    /\ \E e \in EntriesOf(last.pre_fs) : e.path = PHI_CKPT /\ e.sidecar = PHI3

\* the entry the catalog holds for a key written in lower case without padding
ExpectedEntry(b) ==
    IF b = KEY_3B THEN << "none", PHI3, <<"qkv_proj">> >>
    ELSE IF b = KEY_7B THEN << "none", MISTRAL7B, <<"q_proj", "k_proj", "v_proj">> >>
    ELSE IF b = KEY_22B THEN << "none", CODESTRAL, <<"q_proj", "k_proj", "v_proj">> >>
    ELSE << "ValueError", NoneValue, << >> >>

\* C14: load_model_and_tokenizer resolves a key by its trimmed, lower-cased form: every
\* case and padding variant of a key gets that key's entry, 3b the target list
\* [qkv_proj], 7b and 22b [q_proj, k_proj, v_proj], and any other key is a ValueError
\* with no model loaded.
C14_LookupIsByNormalizedKey ==
    last.op = "load" =>
        \A b \in BaseKeys, pre \in Paddings, post \in Paddings :
            \A v \in CaseVariants(b) :
                last.key = pre \o v \o post =>
                    /\ << IF last.err = "ValueError" THEN "ValueError" ELSE "none",
                          last.modelname, last.target_modules >> = ExpectedEntry(b)
                    /\ b \in RecognizedKeys => Len(last.target_modules) > 0
                    /\ b \notin RecognizedKeys => last.err = "ValueError" /\ ~last.loaded

C14_Witness ==
    /\ last.op = "load"
    /\ last.key = <<"\t", "2", "2", "B", "\n", " ">>
    /\ last.loaded
    /\ last.target_modules = <<"q_proj", "k_proj", "v_proj">>

\* C15: a training run writes under the output directory of the family of the key it
\* trains, the two families have different directories, and what the file tree held
\* elsewhere before the run is still there after it.
C15_FamiliesKeepSeparateCheckpoints ==
    /\ FamilyCheckpoint(KEY_3B) # FamilyCheckpoint(KEY_7B)
    /\ (TrainingCalled /\ last.trained) =>
          LET own == FamilyCheckpoint(NormalizeKey(last.key))
          IN  /\ last.output = own
              /\ \E e \in EntriesOf(fs) : e.path = own /\ e.isdir /\ e.sidecar = last.modelname
              /\ \A e \in EntriesOf(last.pre_fs) : e.path # own => e \in EntriesOf(fs)

C15_Witness ==
    /\ TrainingCalled /\ last.trained
    /\ NormalizeKey(last.key) = KEY_7B
    /\ Entry(PHI_CKPT, TRUE, PHI3) \in EntriesOf(last.pre_fs)
    /\ Entry(PHI_CKPT, TRUE, PHI3) \in EntriesOf(fs)
    /\ Entry(MSTRL_CKPT, TRUE, MISTRAL7B) \in EntriesOf(fs)

\* C16: two constructions of different families running at once on the training path
\* each use the delimiter pair and the output directory of their own family, and
\* neither fails for want of a family.
C16_ConcurrentRunsUseOwnFamily ==
    \A t \in DOMAIN runs :
        /\ runs[t].err = "none"
        /\ runs[t].output # NoneValue => runs[t].output = FamilyCheckpoint(runs[t].key)
        /\ runs[t].instruction # NoneValue =>
              << runs[t].instruction, runs[t].response >> = FamilyDelimiters(runs[t].key)

\* C20: once a construction has trained and completed, every later construction over
\* the same file tree finds a checkpoint and does not train.
C20_TrainsAtMostOnce ==
    [][ (trained_once /\ last'.op = "construct") =>
            /\ last'.found # 0
            /\ ~last'.trained ]_vars

====
